---- MODULE Spec2Model ----
(***************************************************************************)
(* A model of decypharr's configuration package (internal/config) and of   *)
(* the debrid error taxonomy (package utils), both found in                *)
(* src/internal/config/config.go.                                          *)
(*                                                                         *)
(* Go strings that the code only compares are TLA+ strings; strings the    *)
(* code inspects character by character (url_base, the size strings) are   *)
(* sequences of one-character strings.  Pointers are object identifiers    *)
(* or NIL.  The file system is part of the state.                          *)
(***************************************************************************)
EXTENDS Integers, Sequences, FiniteSets, TLC

\* ------------------------------------------------------------------ bounds
MaxWrap == 2         \* deepest fmt.Errorf("%w") wrapping of an error argument
MaxCalls == 3        \* calls of the classifier in one run
MaxSize == 4         \* largest file size tried
MaxStrLen == 2       \* longest min_file_size / max_file_size string
MaxUrlLen == 2       \* longest url_base
MaxDebrids == 2      \* most debrids in a validated configuration
MaxLoads == 2        \* Config objects one process allocates
MaxReloads == 1      \* calls of Reload
MaxReads == 2        \* reads of the auth file counted in one process
MaxRestarts == 1     \* process restarts in the auth scenario

NIL == "nil"

\* ------------------------------------------------------- string helpers
\* strings.HasPrefix(s, "/") on a sequence of characters
HasPrefixSlash(s) == Len(s) > 0 /\ s[1] = "/"

\* strings.HasSuffix(s, "/") on a sequence of characters
HasSuffixSlash(s) == Len(s) > 0 /\ s[Len(s)] = "/"

\* cmp.Or(a, b) on strings: the first argument that is not the zero value
cmpOr(a, b) == IF a # "" THEN a ELSE b

\* All sequences over S of length at most n
RECURSIVE SeqsUpTo(_, _)
SeqsUpTo(S, n) ==
    IF n = 0 THEN {<<>>}
    ELSE LET shorter == SeqsUpTo(S, n - 1)
         IN shorter \cup {Append(s, x) : s \in {t \in shorter : Len(t) = n - 1}, x \in S}

\* ===================================================================
\* Error taxonomy (package utils)
\* ===================================================================

\* The *HTTPError objects on the heap: the five declared ones, and two a
\* caller may build itself.
HTTPErrorObjs ==
    [ hoster   |-> [StatusCode |-> 503, Message |-> "Hoster is unavailable",
                    Code |-> "hoster_unavailable"],
      traffic  |-> [StatusCode |-> 503, Message |-> "Traffic exceeded",
                    Code |-> "traffic_exceeded"],
      broken   |-> [StatusCode |-> 404, Message |-> "File is unavailable",
                    Code |-> "file_unavailable"],
      notfound |-> [StatusCode |-> 404, Message |-> "Torrent not found",
                    Code |-> "torrent_not_found"],
      toomany  |-> [StatusCode |-> 509, Message |-> "Too many active downloads",
                    Code |-> "too_many_active_downloads"],
      custom   |-> [StatusCode |-> 500, Message |-> "Internal error",
                    Code |-> "internal"],
      copy509  |-> [StatusCode |-> 509, Message |-> "Too many active downloads",
                    Code |-> "too_many_active_downloads"] ]

ObjIds == DOMAIN HTTPErrorObjs

\* The package-level pointer variables as declared
HosterUnavailableError == "hoster"
TrafficExceededError == "traffic"
ErrLinkBroken == "broken"
TorrentNotFoundError == "notfound"
DeclaredTooMany == "toomany"

\* An error value: nil, or a base error (an *HTTPError object or a plain
\* errors.New value) under `wrap` layers of fmt.Errorf("...%w", err).
PlainError == "plain"
NilError == [wrap |-> 0, base |-> NIL]
ErrArgs == {NilError} \cup [wrap : 0..MaxWrap, base : ObjIds \cup {PlainError}]

\* errors.As(err, &target) with target of type *HTTPError: walks the Unwrap
\* chain and stops at the first error assignable to *HTTPError, which every
\* *HTTPError is; it then stores that error in target.
\* Result: whether one was found, and the value target holds afterwards.
errorsAs(err, target) ==
    IF err = NilError THEN [ok |-> FALSE, target |-> target]
    ELSE IF err.base \in ObjIds THEN [ok |-> TRUE, target |-> err.base]
    ELSE [ok |-> FALSE, target |-> target]

\* IsTooManyActiveDownloadsError(err): errors.As with the address of the
\* package variable TooManyActiveDownloadsError as target.
\* Result: the value returned, and the package variable afterwards.
IsTooManyActiveDownloadsError(err, tooMany) == errorsAs(err, tooMany)

\* ===================================================================
\* File size window
\* ===================================================================
Digits == {"0", "3"}
SizeChars == Digits \cup {"-", "x"}
SizeStrings == SeqsUpTo(SizeChars, MaxStrLen)
DigitVal(ch) == IF ch = "3" THEN 3 ELSE 0

RECURSIVE ParseDigits(_)
ParseDigits(s) ==
    IF Len(s) = 0 THEN 0
    ELSE 10 * ParseDigits(SubSeq(s, 1, Len(s) - 1)) + DigitVal(s[Len(s)])

AllDigits(s) == Len(s) > 0 /\ \A i \in 1..Len(s) : s[i] \in Digits

\* ParseSize(sizeStr) (int64, error): a signed decimal number; anything else
\* is an error.
ParseSize(s) ==
    IF AllDigits(s) THEN [err |-> FALSE, val |-> ParseDigits(s)]
    ELSE IF Len(s) > 1 /\ s[1] = "-" /\ AllDigits(Tail(s))
         THEN [err |-> FALSE, val |-> 0 - ParseDigits(Tail(s))]
    ELSE [err |-> TRUE, val |-> 0]

\* (c *Config) GetMinFileSize
GetMinFileSize(cfg) ==
    IF cfg.MinFileSize = <<>> THEN 0
    ELSE LET r == ParseSize(cfg.MinFileSize) IN IF r.err THEN 0 ELSE r.val

\* (c *Config) GetMaxFileSize
GetMaxFileSize(cfg) ==
    IF cfg.MaxFileSize = <<>> THEN 0
    ELSE LET r == ParseSize(cfg.MaxFileSize) IN IF r.err THEN 0 ELSE r.val

\* (mutant) the window test with ">= 0" where the code has "> 0": a zero
\* bound is then a limit
IsSizeAllowedZeroBound(cfg, size) ==
    IF size = 0 THEN TRUE
    ELSE IF GetMinFileSize(cfg) >= 0 /\ size < GetMinFileSize(cfg) THEN FALSE
    ELSE IF GetMaxFileSize(cfg) >= 0 /\ size > GetMaxFileSize(cfg) THEN FALSE
    ELSE TRUE

\* (c *Config) IsSizeAllowed
IsSizeAllowed(cfg, size) ==
    IF size = 0 THEN TRUE
    ELSE IF GetMinFileSize(cfg) > 0 /\ size < GetMinFileSize(cfg) THEN FALSE
    ELSE IF GetMaxFileSize(cfg) > 0 /\ size > GetMaxFileSize(cfg) THEN FALSE
    ELSE TRUE

\* ===================================================================
\* Configuration types
\* ===================================================================

\* type RepairStrategy
RepairStrategyPerFile == "per_file"
RepairStrategyPerTorrent == "per_torrent"

\* runtime.NumCPU() of the machine the model runs on
NumCPU == 2

\* getDefaultExtensions(): the built-in list of allowed file types
getDefaultExtensions == <<"mkv", "mp4">>

\* The zero value of the embedded WebDav struct (the fields updateDebrid uses)
ZeroWebDav ==
    [ TorrentsRefreshInterval |-> "", DownloadLinksRefreshInterval |-> "",
      FolderNaming |-> "", AutoExpireLinksAfter |-> "", Workers |-> 0,
      Directories |-> 0, RcUrl |-> "", RcUser |-> "", RcPass |-> "" ]

WebDavFields == DOMAIN ZeroWebDav

\* The zero value of Debrid; the embedded WebDav's fields are promoted
ZeroDebrid ==
    [ f \in {"APIKey", "DownloadAPIKeys", "Folder", "UseWebDav"} \cup WebDavFields |->
        CASE f = "APIKey" -> ""
          [] f = "DownloadAPIKeys" -> <<>>
          [] f = "Folder" -> ""
          [] f = "UseWebDav" -> FALSE
          [] OTHER -> ZeroWebDav[f] ]

ZeroQBitTorrent == [DownloadFolder |-> "", Port |-> ""]

ZeroRepair == [Enabled |-> FALSE, Interval |-> "", Strategy |-> ""]

\* The zero value of Config: &Config{}
ZeroConfig ==
    [ URLBase |-> <<>>, Port |-> "", Debrids |-> <<>>,
      QBitTorrent |-> ZeroQBitTorrent, Repair |-> ZeroRepair,
      WebDav |-> ZeroWebDav, AllowedExt |-> <<>>,
      MinFileSize |-> <<>>, MaxFileSize |-> <<>>,
      Path |-> "", UseAuth |-> FALSE, Auth |-> <<>> ]

\* The json tag of each Config field; Path and Auth are tagged "-"
JsonTag ==
    [ URLBase |-> "url_base", Port |-> "port", Debrids |-> "debrids",
      QBitTorrent |-> "qbittorrent", Repair |-> "repair", WebDav |-> "webdav",
      AllowedExt |-> "allowed_file_types", MinFileSize |-> "min_file_size",
      MaxFileSize |-> "max_file_size", Path |-> "-", UseAuth |-> "use_auth",
      Auth |-> "-" ]

\* How omitempty sees each tagged field of Config: a struct is never empty
IsEmptyField(cfg, f) ==
    CASE f \in {"QBitTorrent", "Repair", "WebDav"} -> FALSE
      [] f = "Port" -> cfg[f] = ""
      [] f = "UseAuth" -> cfg[f] = FALSE
      [] OTHER -> Len(cfg[f]) = 0

\* A Go map on the heap is a function from a set of directory names to
\* values; a reference to it is its index in the heap, 0 being the nil map.
\* In JSON a map is absent, <<>>, or an object, <<m>>.
DirsFromJson(jsonDirs, maps) ==
    IF jsonDirs = <<>> THEN [id |-> 0, maps |-> maps]
    ELSE [id |-> Len(maps) + 1, maps |-> Append(maps, jsonDirs[1])]

\* omitempty leaves out a nil map and an empty one
DirsToJson(id, maps) ==
    IF id = 0 THEN <<>>
    ELSE IF DOMAIN maps[id] = {} THEN <<>>
    ELSE <<maps[id]>>

\* Allocates the maps of debrids i.. of cfg
RECURSIVE UnmarshalDebridDirs(_, _, _), UnmarshalDebridDir(_, _, _)
UnmarshalDebridDir(cfg, r, i) ==
    UnmarshalDebridDirs([cfg EXCEPT !.Debrids[i].Directories = r.id], r.maps, i + 1)

UnmarshalDebridDirs(cfg, maps, i) ==
    IF i > Len(cfg.Debrids) THEN [c |-> cfg, maps |-> maps]
    ELSE UnmarshalDebridDir(cfg, DirsFromJson(cfg.Debrids[i].Directories, maps), i)

\* json.Unmarshal, the fields: each key that is the tag of a field sets that
\* field, the other fields keep their value
UnmarshalFields(json, cfg) ==
    [ f \in DOMAIN cfg |->
        IF JsonTag[f] # "-" /\ JsonTag[f] \in DOMAIN json THEN json[JsonTag[f]]
        ELSE cfg[f] ]

\* json.Unmarshal, the maps of the decoded debrids, g being the global map
UnmarshalGlobalDir(json, flat, g) ==
    IF "debrids" \in DOMAIN json
    THEN UnmarshalDebridDirs([flat EXCEPT !.WebDav.Directories = g.id], g.maps, 1)
    ELSE [c |-> [flat EXCEPT !.WebDav.Directories = g.id], maps |-> g.maps]

\* json.Unmarshal, the maps of the decoded fields
UnmarshalMaps(json, flat, oldId, maps) ==
    UnmarshalGlobalDir(json, flat,
        IF "webdav" \in DOMAIN json THEN DirsFromJson(flat.WebDav.Directories, maps)
        ELSE [id |-> oldId, maps |-> maps])

\* json.Unmarshal(file, &c) of a JSON object (a function from keys to
\* values).  Result: the Config and the heap of maps afterwards.
UnmarshalConfig(json, cfg, maps) ==
    UnmarshalMaps(json, UnmarshalFields(json, cfg), cfg.WebDav.Directories, maps)

\* json.MarshalIndent(c): the JSON object of the tagged fields, the empty
\* ones omitted, maps written by value.
MarshalConfig(cfg, maps) ==
    LET kept == {f \in DOMAIN cfg : JsonTag[f] # "-" /\ ~IsEmptyField(cfg, f)}
        val(f) ==
            CASE f = "WebDav" ->
                   [cfg.WebDav EXCEPT !.Directories = DirsToJson(@, maps)]
              [] f = "Debrids" ->
                   [i \in 1..Len(cfg.Debrids) |->
                      [cfg.Debrids[i] EXCEPT !.Directories = DirsToJson(@, maps)]]
              [] OTHER -> cfg[f]
    IN [ t \in {JsonTag[f] : f \in kept} |->
            val(CHOOSE f \in kept : JsonTag[f] = t) ]

\* type Auth
ZeroAuth == [Username |-> "", Password |-> ""]

AuthJsonTag == [Username |-> "username", Password |-> "password"]

\* json.Marshal(auth): both fields are omitempty
MarshalAuth(auth) ==
    LET kept == {f \in DOMAIN auth : auth[f] # ""}
    IN [ t \in {AuthJsonTag[f] : f \in kept} |->
            auth[CHOOSE f \in kept : AuthJsonTag[f] = t] ]

\* json.Unmarshal(file, c.Auth) of a JSON object
UnmarshalAuth(json, auth) ==
    [ f \in DOMAIN auth |->
        IF AuthJsonTag[f] \in DOMAIN json THEN json[AuthJsonTag[f]] ELSE auth[f] ]

\* ---------------------------------------------------------------- files
\* A file: absent, unreadable (exists, cannot be read), corrupt (not JSON,
\* e.g. truncated), the text "null", or a JSON object.
NoFile == [kind |-> "none", obj |-> <<>>]
Unreadable == [kind |-> "unreadable", obj |-> <<>>]
Corrupt == [kind |-> "corrupt", obj |-> <<>>]
JsonNull == [kind |-> "null", obj |-> <<>>]
JsonFileOf(obj) == [kind |-> "json", obj |-> obj]

\* os.Stat outcomes for a directory path
StatDir == "dir"
StatENOENT == "ENOENT"
StatENOTDIR == "ENOTDIR"
StatOutcomes == {StatDir, StatENOENT, StatENOTDIR}

\* os.IsNotExist(err) for the error of an os.Stat
IsNotExist(outcome) == outcome = StatENOENT

\* ===================================================================
\* Validation
\* ===================================================================
NoError == "ok"

\* validateDebrids
validateDebrids(debrids) ==
    IF Len(debrids) = 0 THEN "no debrids configured"
    ELSE LET bad == {i \in 1..Len(debrids) :
                        debrids[i].APIKey = "" \/ debrids[i].Folder = ""}
         IN IF bad = {} THEN NoError
            ELSE LET i == CHOOSE j \in bad : \A k \in bad : j <= k
                 IN IF debrids[i].APIKey = "" THEN "debrid api key is required"
                    ELSE "debrid folder is required"

\* (mutant) validateQbitTorrent without the os.Stat test
validateQbitTorrentNoStat(config, stat) ==
    IF config.DownloadFolder = "" THEN "qbittorent download folder is required"
    ELSE NoError

\* validateQbitTorrent; stat gives os.Stat's outcome for each path
validateQbitTorrent(config, stat) ==
    IF config.DownloadFolder = "" THEN "qbittorent download folder is required"
    ELSE IF IsNotExist(stat[config.DownloadFolder])
         THEN "qbittorent download folder does not exist"
    ELSE NoError

\* validateRepair
validateRepair(config) ==
    IF ~config.Enabled THEN NoError
    ELSE IF config.Interval = "" THEN "repair interval is required"
    ELSE NoError

\* ValidateConfig
ValidateConfig(config, stat) ==
    IF validateDebrids(config.Debrids) # NoError
        THEN validateDebrids(config.Debrids)
    ELSE IF validateQbitTorrent(config.QBitTorrent, stat) # NoError
        THEN validateQbitTorrent(config.QBitTorrent, stat)
    ELSE validateRepair(config.Repair)

\* (c *Config) NeedsSetup
NeedsSetup(cfg, stat) == ValidateConfig(cfg, stat)

\* ===================================================================
\* Authentication credentials
\* ===================================================================

\* (c *Config) GetAuth.  A pointer to an Auth is <<>> (nil) or <<auth>>.
\* Result: the Config afterwards, the pointer returned, and whether
\* os.ReadFile was called on the auth file.
GetAuthLoaded(cfg, loaded, read) ==
    [c |-> [cfg EXCEPT !.Auth = <<loaded>>], ret |-> <<loaded>>, read |-> read]

\* (mutant) GetAuth that hands out c.Auth as it is
GetAuthNoLoad(cfg, file) == [c |-> cfg, ret |-> cfg.Auth, read |-> FALSE]

GetAuth(cfg, file) ==
    IF ~cfg.UseAuth THEN [c |-> cfg, ret |-> <<>>, read |-> FALSE]
    ELSE IF cfg.Auth = <<>> THEN
        GetAuthLoaded(cfg,
                      IF file.kind = "json" THEN UnmarshalAuth(file.obj, ZeroAuth)
                      ELSE ZeroAuth,
                      file.kind # "none")
    ELSE [c |-> cfg, ret |-> cfg.Auth, read |-> FALSE]

\* os.WriteFile: it succeeds, or fails before touching the file, or fails
\* after truncating it
WriteOutcomes == {"ok", "fail", "fail truncated"}

WriteFile(old, new, outcome) ==
    CASE outcome = "ok" -> new
      [] outcome = "fail" -> old
      [] OTHER -> Corrupt

\* (mutant) SaveAuth that writes the file and leaves c.Auth alone
SaveAuthFileOnly(cfg, auth, file, outcome) ==
    [ c |-> cfg,
      file |-> WriteFile(file, JsonFileOf(MarshalAuth(auth)), outcome),
      err |-> outcome # "ok" ]

\* (c *Config) SaveAuth, auth not nil.
\* Result: the Config and the auth file afterwards, and whether an error
\* is returned.
SaveAuth(cfg, auth, file, outcome) ==
    [ c |-> [cfg EXCEPT !.Auth = <<auth>>],
      file |-> WriteFile(file, JsonFileOf(MarshalAuth(auth)), outcome),
      err |-> outcome # "ok" ]

\* (c *Config) SaveAuth(nil): json.Marshal(nil) is the text "null"
SaveAuthNil(cfg, file, outcome) ==
    [ c |-> [cfg EXCEPT !.Auth = <<>>],
      file |-> WriteFile(file, JsonNull, outcome),
      err |-> outcome # "ok" ]

\* NeedsAuth, after its call of GetAuth: ".Username" of a nil *Auth panics
NeedsAuthOf(r) ==
    [ c |-> r.c,
      ret |-> IF r.ret = <<>> THEN FALSE ELSE r.ret[1].Username = "",
      read |-> r.read,
      panic |-> r.ret = <<>> ]

\* (c *Config) NeedsAuth
NeedsAuth(cfg, file) ==
    IF cfg.UseAuth THEN NeedsAuthOf(GetAuth(cfg, file))
    ELSE [c |-> cfg, ret |-> FALSE, read |-> FALSE, panic |-> FALSE]

\* ===================================================================
\* Defaults
\* ===================================================================

\* (mutant) the main key replaces the configured download keys
downloadKeysMainOnly(d) == <<d.APIKey>>

\* updateDebrid, the download keys
downloadKeys(d) ==
    IF Len(d.DownloadAPIKeys) > 0 THEN d.DownloadAPIKeys
    ELSE <<d.APIKey>>

\* (mutant) folder naming falls back to the global value only
webdavTunablesNoNaming(cfg, d, perDebrid) ==
    [ d EXCEPT
        !.TorrentsRefreshInterval =
            IF @ = "" THEN cmpOr(cfg.WebDav.TorrentsRefreshInterval, "15s") ELSE @,
        !.DownloadLinksRefreshInterval =
            IF @ = "" THEN cmpOr(cfg.WebDav.DownloadLinksRefreshInterval, "40m") ELSE @,
        !.Workers = IF @ = 0 THEN perDebrid ELSE @,
        !.FolderNaming = IF @ = "" THEN cfg.WebDav.FolderNaming ELSE @,
        !.AutoExpireLinksAfter =
            IF @ = "" THEN cmpOr(cfg.WebDav.AutoExpireLinksAfter, "3d") ELSE @ ]

\* (mutant) the global refresh interval wins over the debrid's own
webdavTunablesGlobalFirst(cfg, d, perDebrid) ==
    [ d EXCEPT
        !.TorrentsRefreshInterval =
            cmpOr(cfg.WebDav.TorrentsRefreshInterval, cmpOr(@, "15s")),
        !.DownloadLinksRefreshInterval =
            IF @ = "" THEN cmpOr(cfg.WebDav.DownloadLinksRefreshInterval, "40m") ELSE @,
        !.Workers = IF @ = 0 THEN perDebrid ELSE @,
        !.FolderNaming =
            IF @ = "" THEN cmpOr(cfg.WebDav.FolderNaming, "original_no_ext") ELSE @,
        !.AutoExpireLinksAfter =
            IF @ = "" THEN cmpOr(cfg.WebDav.AutoExpireLinksAfter, "3d") ELSE @ ]

\* updateDebrid, the tunables of a WebDAV debrid
webdavTunables(cfg, d, perDebrid) ==
    [ d EXCEPT
        !.TorrentsRefreshInterval =
            IF @ = "" THEN cmpOr(cfg.WebDav.TorrentsRefreshInterval, "15s") ELSE @,
        !.DownloadLinksRefreshInterval =
            IF @ = "" THEN cmpOr(cfg.WebDav.DownloadLinksRefreshInterval, "40m") ELSE @,
        !.Workers = IF @ = 0 THEN perDebrid ELSE @,
        !.FolderNaming =
            IF @ = "" THEN cmpOr(cfg.WebDav.FolderNaming, "original_no_ext") ELSE @,
        !.AutoExpireLinksAfter =
            IF @ = "" THEN cmpOr(cfg.WebDav.AutoExpireLinksAfter, "3d") ELSE @ ]

\* Go's "for name, dir := range src { dst[name] = dir }" on map values
MergeInto(dst, src) ==
    [ n \in DOMAIN dst \cup DOMAIN src |-> IF n \in DOMAIN src THEN src[n] ELSE dst[n] ]

\* updateDebrid, the directories: "directories" refers to the global map
\* (or to a new map when there is none), so the loop writes the debrid's
\* own entries into the global map itself.
updateDebridDirectories(cfg, d, heap1, directories) ==
    [ d |-> [d EXCEPT !.Directories = directories,
                      !.RcUrl = cmpOr(@, cfg.WebDav.RcUrl),
                      !.RcUser = cmpOr(@, cfg.WebDav.RcUser),
                      !.RcPass = cmpOr(@, cfg.WebDav.RcPass)],
      maps |-> IF d.Directories = 0 THEN heap1
               ELSE [heap1 EXCEPT ![directories] = MergeInto(@, heap1[d.Directories])] ]

\* updateDebrid, from "directories := c.WebDav.Directories" on
updateDebridWebDav(cfg, d, maps) ==
    IF cfg.WebDav.Directories = 0
    THEN updateDebridDirectories(cfg, d, Append(maps, <<>>), Len(maps) + 1)
    ELSE updateDebridDirectories(cfg, d, maps, cfg.WebDav.Directories)

\* updateDebrid, from "if !d.UseWebDav" on
updateDebridTunables(cfg, d, maps) ==
    IF ~d.UseWebDav THEN [d |-> d, maps |-> maps]
    ELSE updateDebridWebDav(cfg,
            webdavTunables(cfg, d, (NumCPU * 50) \div Len(cfg.Debrids)), maps)

\* (c *Config) updateDebrid.  Result: the Debrid returned and the heap of
\* maps afterwards.
updateDebrid(cfg, d, maps) ==
    updateDebridTunables(cfg, [d EXCEPT !.DownloadAPIKeys = downloadKeys(d)], maps)

\* setDefaults, the loop over c.Debrids from index i on
RECURSIVE updateDebrids(_, _, _), updateDebridAt(_, _, _)
updateDebridAt(cfg, r, i) ==
    updateDebrids([cfg EXCEPT !.Debrids[i] = r.d], r.maps, i + 1)

updateDebrids(cfg, maps, i) ==
    IF i > Len(cfg.Debrids) THEN [c |-> cfg, maps |-> maps]
    ELSE updateDebridAt(cfg, updateDebrid(cfg, cfg.Debrids[i], maps), i)

\* setDefaults, url_base: "/" when empty, then a leading and a trailing "/"
addTrailingSlash(u) == IF ~HasSuffixSlash(u) THEN Append(u, "/") ELSE u
addLeadingSlash(u) == IF ~HasPrefixSlash(u) THEN <<"/">> \o u ELSE u
normalizeURLBase(u) ==
    addTrailingSlash(addLeadingSlash(IF u = <<>> THEN <<"/">> ELSE u))

\* The heap of maps holds the maps a Config can reach, numbered in the
\* order the Config reaches them (its own WebDav first, then its debrids):
\* maps nothing refers to any more are collected.
MapRefs(cfg) ==
    <<cfg.WebDav.Directories>>
        \o [i \in 1..Len(cfg.Debrids) |-> cfg.Debrids[i].Directories]

UsedMaps(refs) == {refs[i] : i \in 1..Len(refs)} \ {0}

FirstRef(refs, id) ==
    CHOOSE i \in 1..Len(refs) : refs[i] = id /\ \A j \in 1..Len(refs) : refs[j] = id => i <= j

NewMapId(refs, id) ==
    IF id = 0 THEN 0
    ELSE Cardinality({u \in UsedMaps(refs) : FirstRef(refs, u) <= FirstRef(refs, id)})

CollectRefs(r, refs) ==
    [ r EXCEPT
        !.c = [r.c EXCEPT
                 !.WebDav.Directories = NewMapId(refs, @),
                 !.Debrids = [i \in 1..Len(r.c.Debrids) |->
                                [r.c.Debrids[i] EXCEPT !.Directories = NewMapId(refs, @)]]],
        !.maps = [k \in 1..Cardinality(UsedMaps(refs)) |->
                    r.maps[CHOOSE u \in UsedMaps(refs) : NewMapId(refs, u) = k]] ]

Collect(r) == CollectRefs(r, MapRefs(r.c))

\* setDefaults, "c.Auth = c.GetAuth()"
setDefaultsAuth(a, maps) ==
    [c |-> [a.c EXCEPT !.Auth = a.ret], maps |-> maps, read |-> a.read]

\* setDefaults, after the loop over c.Debrids
setDefaultsFields(u, authFile) ==
    setDefaultsAuth(
        GetAuth([u.c EXCEPT
                   !.AllowedExt = IF Len(@) = 0 THEN getDefaultExtensions ELSE @,
                   !.Port = cmpOr(@, u.c.QBitTorrent.Port),
                   !.URLBase = normalizeURLBase(@),
                   !.Repair.Strategy = IF @ = "" THEN RepairStrategyPerTorrent ELSE @],
                authFile),
        u.maps)

\* (c *Config) setDefaults.  Result: the Config and the heap of maps
\* afterwards, and whether the auth file was read.
setDefaults(cfg, maps, authFile) ==
    setDefaultsFields(updateDebrids(cfg, maps, 1), authFile)

\* Save, after its call of setDefaults
SaveWrite(r, configFile, outcome) ==
    [ c |-> r.c, maps |-> r.maps, read |-> r.read,
      file |-> WriteFile(configFile, JsonFileOf(MarshalConfig(r.c, r.maps)), outcome),
      err |-> outcome # "ok" ]

\* (c *Config) Save.  Result: as setDefaults, with the config file
\* afterwards and whether an error is returned.
Save(cfg, maps, authFile, configFile, outcome) ==
    SaveWrite(setDefaults(cfg, maps, authFile), configFile, outcome)

\* filepath.Join(path, "downloads") for the one config path of the model
ConfigDir == "/cfg"
DefaultDownloads == "/cfg/downloads"

\* (c *Config) createConfig, after os.MkdirAll succeeded
createConfig(cfg, path) ==
    [ cfg EXCEPT !.Path = path, !.URLBase = <<"/">>, !.Port = "8282",
                 !.UseAuth = TRUE,
                 !.QBitTorrent = [ZeroQBitTorrent EXCEPT !.DownloadFolder = DefaultDownloads] ]

\* loadConfig returning an error ("error"), or dying of a nil receiver
\* ("panic")
loadFailed(err, cfg, maps, configFile) ==
    [err |-> err, c |-> cfg, maps |-> maps, file |-> configFile, read |-> FALSE]

\* loadConfig, "return c.Save()"
loadSaved(s) ==
    [err |-> IF s.err THEN "error" ELSE "ok", c |-> s.c, maps |-> s.maps,
     file |-> s.file, read |-> s.read]

\* loadConfig, "c.setDefaults(); return nil"
loadDefaulted(r, configFile) ==
    [err |-> "ok", c |-> r.c, maps |-> r.maps, file |-> configFile, read |-> r.read]

\* loadConfig, "json.Unmarshal(file, &c)" done
loadUnmarshalled(u, configFile, authFile) ==
    loadDefaulted(setDefaults(u.c, u.maps, authFile), configFile)

\* loadConfig, from "c.Path = configPath" on
loadConfigAt(cfg, configFile, authFile, maps, mkdirOk, outcome) ==
    IF configFile.kind = "none" THEN
        IF ~mkdirOk THEN loadFailed("error", cfg, maps, configFile)
        ELSE loadSaved(Save(createConfig(cfg, cfg.Path), maps, authFile, configFile, outcome))
    ELSE IF configFile.kind \in {"unreadable", "corrupt"}
        THEN loadFailed("error", cfg, maps, configFile)
    ELSE IF configFile.kind = "null" THEN loadFailed("panic", cfg, maps, configFile)
    ELSE loadUnmarshalled(UnmarshalConfig(configFile.obj, cfg, maps), configFile, authFile)

\* (c *Config) loadConfig on a fresh &Config{}.  mkdirOk and outcome are
\* what os.MkdirAll and os.WriteFile do when the config file is missing.
\* Result: err ("ok", "error", or "panic" for the nil receiver that
\* json.Unmarshal leaves for the text "null"), and the Config, the heap of
\* maps and the config file afterwards.
loadConfig(path, configFile, authFile, maps, mkdirOk, outcome) ==
    IF path = "" THEN loadFailed("error", ZeroConfig, maps, configFile)
    ELSE loadConfigAt([ZeroConfig EXCEPT !.Path = path], configFile, authFile,
                      maps, mkdirOk, outcome)

\* ===================================================================
\* State
\* ===================================================================
VARIABLES
    c,           \* the Config the methods are called on
    raw,         \* that Config as json.Unmarshal left it, before setDefaults
    phase,       \* "unmarshalled" (inside loadConfig) or "loaded"
    maps,        \* the heap of Go maps (the Directories of c and its debrids)
    configFile,  \* config.json
    authFile,    \* auth.json
    stat,        \* what os.Stat answers for each directory path
    call,        \* the last call made: its name, argument and result
    TooManyActiveDownloadsError,  \* the package variable of that name
    nCalls,      \* calls of the classifier made so far
    authReads,   \* os.ReadFile calls on the auth file in this process
    lastSaved,   \* <<a>> when the latest SaveAuth was SaveAuth(a) and returned nil
    restarts,    \* process restarts so far
    configPath,  \* the package variable configPath
    instance,    \* the package variable instance: 0 (nil) or a Config object
    once,        \* the package variable once
    heap,        \* the Config objects allocated by Get
    pc,          \* where each goroutine is inside Get or Reload
    ret,         \* what each goroutine's latest Get returned
    proc,        \* "running", "exited" (os.Exit) or "panicked"
    epoch,       \* Reload calls so far
    loads        \* loadConfig calls since the latest Reload

cfgVars == <<c, raw, phase, maps>>
fileVars == <<configFile, authFile, stat>>
errVars == <<TooManyActiveDownloadsError, nCalls>>
authVars == <<authReads, lastSaved, restarts>>
getVars == <<configPath, instance, once, heap, pc, ret, proc, epoch, loads>>

vars == <<cfgVars, fileVars, call, errVars, authVars, getVars>>

\* The goroutines that call Get and Reload
Goroutines == {"g1", "g2"}
NoRet == 0 - 1
NewOnce == [done |-> FALSE, locked |-> FALSE]

NoCall == [op |-> "none"]

\* Directory paths the configurations of the model name
DataDir == "/data"
Paths == {DataDir, DefaultDownloads}
AllDirs == [p \in Paths |-> StatDir]

\* ===================================================================
\* The configuration, decoded from a config file, and its methods
\* ===================================================================

\* --- config files of the model, by the part of the Config they vary
SizeJsons ==
    { [min_file_size |-> a, max_file_size |-> b] : a, b \in SizeStrings }

\* In a JSON file "directories" is absent (<<>>) or an object (<<m>>)
JsonWebDav == [ZeroWebDav EXCEPT !.Directories = <<>>]

DebridOf(key, folder) ==
    [ZeroDebrid EXCEPT !.APIKey = key, !.Folder = folder, !.Directories = <<>>]

ValidatedDebrids ==
    LET one == {DebridOf(k, f) : k \in {"", "key1"}, f \in {"", "/mnt/rd"}}
    IN SeqsUpTo(one, MaxDebrids)

ValidateJsons ==
    { [debrids |-> ds,
       qbittorrent |-> [ZeroQBitTorrent EXCEPT !.DownloadFolder = f],
       repair |-> [Enabled |-> e, Interval |-> i, Strategy |-> st]] :
        ds \in ValidatedDebrids, f \in {"", DataDir}, e \in BOOLEAN,
        i \in {"", "12h"},
        st \in {"", RepairStrategyPerFile, RepairStrategyPerTorrent, "per_season"} }

Tunables(t, l, n, x) ==
    [TorrentsRefreshInterval |-> t, DownloadLinksRefreshInterval |-> l,
     FolderNaming |-> n, AutoExpireLinksAfter |-> x]

TunableSets ==
    { Tunables(t, l, n, x) :
        t \in {"", "30s"}, l \in {"", "20m"}, n \in {"", "original"}, x \in {"", "1d"} }

\* The global WebDav section uses values no debrid uses, so that where a
\* value came from can be told
GlobalTunableSets ==
    { Tunables(t, l, n, x) :
        t \in {"", "60s"}, l \in {"", "10m"}, n \in {"", "filename"}, x \in {"", "7d"} }

WithTunables(rec, t) ==
    [f \in DOMAIN rec |-> IF f \in DOMAIN t THEN t[f] ELSE rec[f]]

TunableJsons ==
    LET first == { [WithTunables(DebridOf("key1", "/mnt/rd"), t) EXCEPT !.UseWebDav = w] :
                      t \in TunableSets, w \in BOOLEAN }
        second == { [WithTunables(DebridOf("key2", "/mnt/ad"), t) EXCEPT !.UseWebDav = w] :
                      t \in {Tunables("", "", "", ""), Tunables("30s", "20m", "original", "1d")},
                      w \in BOOLEAN }
    IN { [debrids |-> ds, webdav |-> WithTunables(JsonWebDav, g)] :
            ds \in {<<a>> : a \in first} \cup {<<a, b>> : a \in first, b \in second},
            g \in GlobalTunableSets }

KeyJsons ==
    LET deb(k) == { [DebridOf(k, "/mnt/rd") EXCEPT !.DownloadAPIKeys = dk, !.UseWebDav = w] :
                      dk \in {<<>>, <<"dl1">>, <<"dl1", "dl2">>}, w \in BOOLEAN }
        first == deb("") \cup deb("key1")
        second == deb("") \cup deb("key2")
    IN { [debrids |-> ds] :
            ds \in {<<a>> : a \in first} \cup {<<a, b>> : a \in first, b \in second} }

UrlChars == {"/", "a"}
UrlJsons == { [url_base |-> u] : u \in SeqsUpTo(UrlChars, MaxUrlLen) }

DirNames == {"movies", "shows"}
DirJsons ==
    LET deb(k, own) == [DebridOf(k, "/mnt/rd") EXCEPT !.UseWebDav = TRUE, !.Directories = own]
        owns(v) == {<<>>} \cup {<<[n \in {name} |-> v]>> : name \in DirNames}
    IN { [debrids |-> <<deb("key1", o1), deb("key2", o2)>>,
          webdav |-> [JsonWebDav EXCEPT !.Directories = g]] :
            o1 \in owns("of debrid 1"), o2 \in owns("of debrid 2"),
            g \in {<<>>, <<[n \in {"movies"} |-> "global"]>>} }

\* --- initial states: inside loadConfig, right after json.Unmarshal
Decoded(u) == c = u.c /\ raw = u.c /\ maps = u.maps

InitRest ==
    /\ phase = "unmarshalled"
    /\ Decoded(UnmarshalConfig(configFile.obj, [ZeroConfig EXCEPT !.Path = ConfigDir], <<>>))
    /\ authFile = NoFile
    /\ call = NoCall
    /\ TooManyActiveDownloadsError = DeclaredTooMany
    /\ nCalls = 0
    /\ authReads = 0
    /\ lastSaved = <<>>
    /\ restarts = 0
    /\ configPath = ConfigDir
    /\ instance = 0
    /\ once = NewOnce
    /\ heap = <<>>
    /\ pc = [g \in Goroutines |-> "idle"]
    /\ ret = [g \in Goroutines |-> [ptr |-> NoRet, epoch |-> 0]]
    /\ proc = "running"
    /\ epoch = 0
    /\ loads = 0

InitSize ==
    /\ configFile \in {JsonFileOf(j) : j \in SizeJsons}
    /\ stat = AllDirs
    /\ InitRest

InitValidate ==
    /\ configFile \in {JsonFileOf(j) : j \in ValidateJsons}
    /\ stat \in {[AllDirs EXCEPT ![DataDir] = o] : o \in StatOutcomes}
    /\ InitRest

InitDefaults ==
    /\ configFile \in {JsonFileOf(j) :
                         j \in TunableJsons \cup KeyJsons \cup UrlJsons \cup DirJsons}
    /\ stat = AllDirs
    /\ InitRest

CountRead(n, read) == IF read THEN n + 1 ELSE n

\* The receiver, the heap of maps and the count of reads after a method
\* with result r
Updated(r) == c' = r.c /\ maps' = r.maps /\ authReads' = CountRead(authReads, r.read)

\* loadConfig's call of setDefaults
LoadDefaults ==
    /\ phase = "unmarshalled"
    /\ authReads < MaxReads
    /\ Updated(Collect(setDefaults(c, maps, authFile)))
    /\ phase' = "loaded"
    /\ call' = [op |-> "setDefaults"]
    /\ UNCHANGED <<raw, fileVars, errVars, lastSaved, restarts, getVars>>

CallIsSizeAllowed ==
    /\ phase = "loaded"
    /\ \E size \in (0 - MaxSize)..MaxSize :
          call' = [op |-> "IsSizeAllowed", arg |-> size, ret |-> IsSizeAllowed(c, size)]
    /\ UNCHANGED <<cfgVars, fileVars, errVars, authVars, getVars>>

CallValidateConfig ==
    /\ phase = "loaded"
    /\ call' = [op |-> "ValidateConfig", ret |-> ValidateConfig(c, stat)]
    /\ UNCHANGED <<cfgVars, fileVars, errVars, authVars, getVars>>

CallNeedsSetup ==
    /\ phase = "loaded"
    /\ call' = [op |-> "NeedsSetup", ret |-> NeedsSetup(c, stat)]
    /\ UNCHANGED <<cfgVars, fileVars, errVars, authVars, getVars>>

Saved(r) ==
    /\ Updated(r)
    /\ configFile' = r.file
    /\ call' = [op |-> "Save", err |-> r.err]

CallSave ==
    /\ phase = "loaded"
    /\ authReads < MaxReads
    /\ \E outcome \in WriteOutcomes :
         Saved(Collect(Save(c, maps, authFile, configFile, outcome)))
    /\ UNCHANGED <<raw, phase, authFile, stat, errVars, lastSaved, restarts, getVars>>

\* layout.html: a URL is a sequence of "/" and of pieces of text without
\* a "/".  The navbar links are {{.URLBase}} followed by the page name.
Pages == {<<"download">>, <<"repair">>}

\* layout.html: the endpoints fetcher is called with
Endpoints == {<<"api">>, <<"/", "api">>}

\* layout.html: joinURL(base, path)
joinURL(base, path) ==
    (IF ~HasSuffixSlash(base) THEN Append(base, "/") ELSE base)
        \o (IF HasPrefixSlash(path) THEN Tail(path) ELSE path)

\* layout.html rendered with the URLBase of the loaded configuration: a
\* navbar link, and the URL fetcher builds from window.urlBase
RenderLayout ==
    /\ phase = "loaded"
    /\ \E page \in Pages, endpoint \in Endpoints :
          call' = [op |-> "layout", href |-> c.URLBase \o page,
                   url |-> joinURL(c.URLBase, endpoint)]
    /\ UNCHANGED <<cfgVars, fileVars, errVars, authVars, getVars>>

\* The size window of a loaded configuration
NextSize == LoadDefaults \/ CallIsSizeAllowed
SpecSize == InitSize /\ [][NextSize]_vars

\* Validation of a loaded configuration
NextValidate == LoadDefaults \/ CallValidateConfig \/ CallNeedsSetup
SpecValidate == InitValidate /\ [][NextValidate]_vars

\* Defaults: at load, and again at every Save
NextDefaults == LoadDefaults \/ CallSave \/ RenderLayout
SpecDefaults == InitDefaults /\ [][NextDefaults]_vars

\* ===================================================================
\* The error taxonomy and its classifier
\* ===================================================================
InitErr ==
    /\ configFile = JsonFileOf(<<>>)
    /\ stat = AllDirs
    /\ InitRest

CallIsTooManyActiveDownloadsError ==
    /\ nCalls < MaxCalls
    /\ \E err \in ErrArgs :
         LET r == IsTooManyActiveDownloadsError(err, TooManyActiveDownloadsError)
         IN /\ TooManyActiveDownloadsError' = r.target
            /\ call' = [op |-> "IsTooManyActiveDownloadsError", arg |-> err, ret |-> r.ok]
    /\ nCalls' = nCalls + 1
    /\ UNCHANGED <<cfgVars, fileVars, authVars, getVars>>

NextErr == CallIsTooManyActiveDownloadsError
SpecErr == InitErr /\ [][NextErr]_vars

\* ===================================================================
\* Authentication credentials across calls and restarts
\* ===================================================================
Auths == [Username : {"", "admin"}, Password : {"", "hash1", "hash2"}]

AuthFiles ==
    {NoFile, Unreadable, Corrupt, JsonNull} \cup {JsonFileOf(MarshalAuth(a)) : a \in Auths}

\* A process start: Get's loadConfig of an existing config file
StartProcess(file, auth) == loadConfig(ConfigDir, file, auth, <<>>, TRUE, "ok")

Started(r) == c = r.c /\ raw = r.c /\ maps = r.maps /\ authReads = CountRead(0, r.read)

InitAuth ==
    /\ configFile \in {JsonFileOf([use_auth |-> u]) : u \in BOOLEAN}
    /\ authFile \in AuthFiles
    /\ stat = AllDirs
    /\ Started(StartProcess(configFile, authFile))
    /\ phase = "loaded"
    /\ call = NoCall
    /\ TooManyActiveDownloadsError = DeclaredTooMany
    /\ nCalls = 0
    /\ lastSaved = <<>>
    /\ restarts = 0
    /\ configPath = ConfigDir
    /\ instance = 0
    /\ once = NewOnce
    /\ heap = <<>>
    /\ pc = [g \in Goroutines |-> "idle"]
    /\ ret = [g \in Goroutines |-> [ptr |-> NoRet, epoch |-> 0]]
    /\ proc = "running"
    /\ epoch = 0
    /\ loads = 0

Returned(op, r) ==
    /\ c' = r.c
    /\ authReads' = CountRead(authReads, r.read)
    /\ call' = [op |-> op, ret |-> r.ret]

CallGetAuth ==
    /\ phase = "loaded"
    /\ authReads < MaxReads
    /\ Returned("GetAuth", GetAuth(c, authFile))
    /\ UNCHANGED <<raw, phase, maps, fileVars, errVars, lastSaved, restarts, getVars>>

SavedAuth(auth, r) ==
    /\ c' = r.c
    /\ authFile' = r.file
    /\ lastSaved' = IF r.err THEN <<>> ELSE <<auth>>
    /\ call' = [op |-> "SaveAuth", arg |-> auth, err |-> r.err]

CallSaveAuth ==
    /\ phase = "loaded"
    /\ \E auth \in Auths, outcome \in WriteOutcomes :
         SavedAuth(auth, SaveAuth(c, auth, authFile, outcome))
    /\ UNCHANGED <<raw, phase, maps, configFile, stat, errVars, authReads, restarts, getVars>>

\* The receiver and the result after NeedsAuth with result r; lazy tells
\* that the call found no credentials in memory
ReturnedNeedsAuth(r) ==
    /\ c' = r.c
    /\ authReads' = CountRead(authReads, r.read)
    /\ call' = [op |-> "NeedsAuth", ret |-> r.ret, panic |-> r.panic,
                lazy |-> c.UseAuth /\ c.Auth = <<>>]

CallNeedsAuth ==
    /\ phase = "loaded"
    /\ authReads < MaxReads
    /\ ReturnedNeedsAuth(NeedsAuth(c, authFile))
    /\ UNCHANGED <<raw, phase, maps, fileVars, errVars, lastSaved, restarts, getVars>>

SavedAuthNil(r) ==
    /\ c' = r.c
    /\ authFile' = r.file
    /\ lastSaved' = <<>>
    /\ call' = [op |-> "SaveAuth(nil)", err |-> r.err]

\* SaveAuth called with a nil *Auth
CallSaveAuthNil ==
    /\ phase = "loaded"
    /\ \E outcome \in WriteOutcomes : SavedAuthNil(SaveAuthNil(c, authFile, outcome))
    /\ UNCHANGED <<raw, phase, maps, configFile, stat, errVars, authReads, restarts, getVars>>

Restarted(r) ==
    c' = r.c /\ raw' = r.c /\ maps' = r.maps /\ authReads' = CountRead(0, r.read)

\* The process ends and is started again on the same files
Restart ==
    /\ restarts < MaxRestarts
    /\ Restarted(StartProcess(configFile, authFile))
    /\ restarts' = restarts + 1
    /\ call' = [op |-> "restart"]
    /\ UNCHANGED <<phase, fileVars, errVars, lastSaved, getVars>>

NextAuth == CallGetAuth \/ CallSaveAuth \/ CallNeedsAuth \/ CallSave \/ Restart
SpecAuth == InitAuth /\ [][NextAuth]_vars

\* The same, with SaveAuth's argument nil or not
NextNeedsAuth == NextAuth \/ CallSaveAuthNil
SpecNeedsAuth == InitAuth /\ [][NextNeedsAuth]_vars

\* ===================================================================
\* The singleton: Get and Reload
\* ===================================================================
GoodJson ==
    [debrids |-> <<DebridOf("key1", "/mnt/rd")>>,
     qbittorrent |-> [ZeroQBitTorrent EXCEPT !.DownloadFolder = DataDir]]

NoKeyJson == [GoodJson EXCEPT !.debrids = <<DebridOf("", "/mnt/rd")>>]

\* What config.json may hold
DiskFiles ==
    {NoFile, Unreadable, Corrupt, JsonNull}
        \cup {JsonFileOf(j) : j \in {GoodJson, NoKeyJson}}

\* (mutant) Get that prints the error and goes on
afterLoadNoExit(err) == IF err = "panic" THEN "panicked" ELSE "running"

\* The state of the process, given loadConfig's error: Get calls os.Exit(1)
\* on an error; a nil receiver panics
afterLoad(err) ==
    CASE err = "ok" -> "running"
      [] err = "error" -> "exited"
      [] OTHER -> "panicked"

\* (mutant) a Once that never sees itself done
onceNeverDone(o) == FALSE

\* sync.Once: o.done.Load() != 0
onceDone(o) == o.done

InitGet ==
    /\ configFile \in DiskFiles
    /\ stat = AllDirs
    /\ configPath \in {"", ConfigDir}
    /\ authFile = NoFile
    /\ c = ZeroConfig /\ raw = ZeroConfig /\ maps = <<>>
    /\ phase = "unmarshalled"
    /\ call = NoCall
    /\ TooManyActiveDownloadsError = DeclaredTooMany
    /\ nCalls = 0
    /\ authReads = 0
    /\ lastSaved = <<>>
    /\ restarts = 0
    /\ instance = 0
    /\ once = NewOnce
    /\ heap = <<>>
    /\ pc = [g \in Goroutines |-> "idle"]
    /\ ret = [g \in Goroutines |-> [ptr |-> NoRet, epoch |-> 0]]
    /\ proc = "running"
    /\ epoch = 0
    /\ loads = 0

restVars == <<cfgVars, authFile, stat, call, errVars, authVars, configPath>>

\* Get: once.Do, the test of done before taking the lock
GetBegin(g) ==
    /\ proc = "running"
    /\ pc[g] = "idle"
    /\ pc' = [pc EXCEPT ![g] = IF onceDone(once) THEN "return" ELSE "lock"]
    /\ UNCHANGED <<restVars, configFile, instance, once, heap, ret, proc, epoch, loads>>

\* Get: once.Do takes the lock and tests done again
GetLock(g) ==
    /\ proc = "running"
    /\ pc[g] = "lock"
    /\ ~once.locked
    /\ once' = [once EXCEPT !.locked = TRUE]
    /\ pc' = [pc EXCEPT ![g] = IF onceDone(once) THEN "unlock" ELSE "new"]
    /\ UNCHANGED <<restVars, configFile, instance, heap, ret, proc, epoch, loads>>

\* Get: instance = &Config{}
GetNew(g) ==
    /\ proc = "running"
    /\ pc[g] = "new"
    /\ Len(heap) < MaxLoads
    /\ heap' = Append(heap, [c |-> ZeroConfig, maps |-> <<>>, status |-> "new",
                             epoch |-> epoch, from |-> NoFile])
    /\ instance' = Len(heap) + 1
    /\ pc' = [pc EXCEPT ![g] = "load"]
    /\ UNCHANGED <<restVars, configFile, once, ret, proc, epoch, loads>>

\* The Config object, the config file and the process after loadConfig
\* with result r on the object instance refers to
Loaded(g, r) ==
    /\ heap' = [heap EXCEPT ![instance] =
                  [c |-> r.c, maps |-> r.maps,
                   status |-> IF r.err = "ok" THEN "loaded" ELSE "failed",
                   epoch |-> epoch, from |-> configFile]]
    /\ configFile' = r.file
    /\ proc' = afterLoad(r.err)
    /\ pc' = [pc EXCEPT ![g] = "done"]

\* Get: instance.loadConfig(), and os.Exit(1) on an error.  When Reload
\* has set instance to nil in between, the receiver is nil: loadConfig
\* returns an error without a config path and panics with one.
GetLoad(g) ==
    /\ proc = "running"
    /\ pc[g] = "load"
    /\ IF instance = 0
       THEN /\ proc' = IF configPath = "" THEN afterLoad("error") ELSE afterLoad("panic")
            /\ UNCHANGED <<heap, configFile, pc>>
       ELSE \E mkdirOk \in BOOLEAN, outcome \in WriteOutcomes :
               Loaded(g, Collect(loadConfig(configPath, configFile, authFile, <<>>,
                                            mkdirOk, outcome)))
    /\ loads' = loads + 1
    /\ UNCHANGED <<restVars, instance, once, ret, epoch>>

\* sync.Mutex.Unlock: unlocking a mutex that is not locked is a fatal error
Unlocked(g) ==
    /\ IF once.locked THEN UNCHANGED proc ELSE proc' = "panicked"
    /\ pc' = [pc EXCEPT ![g] = "return"]

\* Get: once.Do's deferred calls, o.done.Store(1) then o.m.Unlock()
GetDone(g) ==
    /\ proc = "running"
    /\ pc[g] = "done"
    /\ once' = [done |-> TRUE, locked |-> FALSE]
    /\ Unlocked(g)
    /\ UNCHANGED <<restVars, configFile, instance, heap, ret, epoch, loads>>

\* Get: once.Do found done set after taking the lock, and unlocks
GetUnlock(g) ==
    /\ proc = "running"
    /\ pc[g] = "unlock"
    /\ once' = [once EXCEPT !.locked = FALSE]
    /\ Unlocked(g)
    /\ UNCHANGED <<restVars, configFile, instance, heap, ret, epoch, loads>>

\* Get: return instance
GetReturn(g) ==
    /\ proc = "running"
    /\ pc[g] = "return"
    /\ ret' = [ret EXCEPT ![g] = [ptr |-> instance, epoch |-> epoch]]
    /\ pc' = [pc EXCEPT ![g] = "idle"]
    /\ UNCHANGED <<restVars, configFile, instance, once, heap, proc, epoch, loads>>

\* Reload: instance = nil
ReloadBegin(g) ==
    /\ proc = "running"
    /\ pc[g] = "idle"
    /\ epoch < MaxReloads
    /\ instance' = 0
    /\ pc' = [pc EXCEPT ![g] = "reload"]
    /\ UNCHANGED <<restVars, configFile, once, heap, ret, proc, epoch, loads>>

\* Reload: once = sync.Once{}
ReloadEnd(g) ==
    /\ proc = "running"
    /\ pc[g] = "reload"
    /\ once' = NewOnce
    /\ epoch' = epoch + 1
    /\ loads' = 0
    /\ pc' = [pc EXCEPT ![g] = "idle"]
    /\ UNCHANGED <<restVars, configFile, instance, heap, ret, proc>>

\* Reload, called while no goroutine is inside Get or Reload
ReloadAlone(g) ==
    /\ proc = "running"
    /\ \A h \in Goroutines : pc[h] = "idle"
    /\ epoch < MaxReloads
    /\ instance' = 0
    /\ once' = NewOnce
    /\ epoch' = epoch + 1
    /\ loads' = 0
    /\ UNCHANGED <<restVars, configFile, heap, pc, ret, proc>>

\* Somebody edits config.json
EditConfigFile ==
    /\ proc = "running"
    /\ configFile' \in DiskFiles \ {configFile}
    /\ UNCHANGED <<restVars, getVars>>

GetStep(g) ==
    \/ GetBegin(g)
    \/ GetLock(g)
    \/ GetNew(g)
    \/ GetLoad(g)
    \/ GetDone(g)
    \/ GetUnlock(g)
    \/ GetReturn(g)

\* Get from any goroutine, Reload between the Gets
NextSingleton ==
    \/ \E g \in Goroutines : GetStep(g) \/ ReloadAlone(g)
    \/ EditConfigFile
SpecSingleton == InitGet /\ [][NextSingleton]_vars

\* Get and Reload from any goroutine at any time
Next ==
    \/ \E g \in Goroutines : GetStep(g) \/ ReloadBegin(g) \/ ReloadEnd(g)
    \/ EditConfigFile
Spec == InitGet /\ [][Next]_vars

\* ===================================================================
\* Claims
\* ===================================================================
IsSizeCall == call.op = "IsSizeAllowed"

IsValidateCall == call.op \in {"ValidateConfig", "NeedsSetup"}

\* What the claim asks of a valid configuration
C2_Valid ==
    /\ Len(c.Debrids) > 0
    /\ \A i \in 1..Len(c.Debrids) : c.Debrids[i].APIKey # "" /\ c.Debrids[i].Folder # ""
    /\ c.QBitTorrent.DownloadFolder # ""
    /\ c.QBitTorrent.DownloadFolder \in Paths
    /\ stat[c.QBitTorrent.DownloadFolder] = StatDir
    /\ (~c.Repair.Enabled \/ c.Repair.Interval # "")

\* C2: ValidateConfig and NeedsSetup return no error exactly when there is
\* a debrid, every debrid has an API key and a folder, the download folder
\* is set and exists on disk, and repair is disabled or has an interval.
C2_ValidateIff == IsValidateCall => (call.ret = NoError <=> C2_Valid)

\* C4 (as stated): after setDefaults every debrid, whatever its use_webdav,
\* has the four tunables non-empty; a link-refresh interval and a folder
\* naming set nowhere become "40m" and "original_no_ext".
C4_AsStated ==
    phase = "loaded" =>
        \A i \in 1..Len(c.Debrids) :
            /\ c.Debrids[i].TorrentsRefreshInterval # ""
            /\ c.Debrids[i].DownloadLinksRefreshInterval # ""
            /\ c.Debrids[i].FolderNaming # ""
            /\ c.Debrids[i].AutoExpireLinksAfter # ""
            /\ (raw.Debrids[i].DownloadLinksRefreshInterval = ""
                  /\ raw.WebDav.DownloadLinksRefreshInterval = ""
                => c.Debrids[i].DownloadLinksRefreshInterval = "40m")
            /\ (raw.Debrids[i].FolderNaming = "" /\ raw.WebDav.FolderNaming = ""
                => c.Debrids[i].FolderNaming = "original_no_ext")

\* C4 (amended): after setDefaults every debrid with use_webdav set has the
\* four tunables non-empty; a link-refresh interval and a folder naming set
\* nowhere become "40m" and "original_no_ext".  A debrid without use_webdav
\* keeps its tunables as configured.
C4_WebDavDefaults ==
    phase = "loaded" =>
        \A i \in 1..Len(c.Debrids) :
            IF c.Debrids[i].UseWebDav
            THEN /\ c.Debrids[i].TorrentsRefreshInterval # ""
                 /\ c.Debrids[i].DownloadLinksRefreshInterval # ""
                 /\ c.Debrids[i].FolderNaming # ""
                 /\ c.Debrids[i].AutoExpireLinksAfter # ""
                 /\ (raw.Debrids[i].DownloadLinksRefreshInterval = ""
                       /\ raw.WebDav.DownloadLinksRefreshInterval = ""
                     => c.Debrids[i].DownloadLinksRefreshInterval = "40m")
                 /\ (raw.Debrids[i].FolderNaming = "" /\ raw.WebDav.FolderNaming = ""
                     => c.Debrids[i].FolderNaming = "original_no_ext")
            ELSE \A f \in DOMAIN Tunables("", "", "", "") :
                    c.Debrids[i][f] = raw.Debrids[i][f]

\* C4 witness: a WebDAV debrid with nothing set got the built-in defaults
C4_Witness ==
    /\ phase = "loaded"
    /\ \E i \in 1..Len(c.Debrids) :
          /\ c.Debrids[i].UseWebDav
          /\ raw.Debrids[i].FolderNaming = ""
          /\ raw.Debrids[i].DownloadLinksRefreshInterval = ""
          /\ c.Debrids[i].FolderNaming = "original_no_ext"
          /\ c.Debrids[i].DownloadLinksRefreshInterval = "40m"

\* C9: after setDefaults every debrid, WebDAV or not, has a non-empty pool
\* of download keys: the configured list unchanged when there is one, else
\* the one-element list of the debrid's main API key.
C9_DownloadKeys ==
    phase = "loaded" =>
        \A i \in 1..Len(c.Debrids) :
            /\ Len(c.Debrids[i].DownloadAPIKeys) > 0
            /\ (Len(raw.Debrids[i].DownloadAPIKeys) > 0
                => c.Debrids[i].DownloadAPIKeys = raw.Debrids[i].DownloadAPIKeys)
            /\ (Len(raw.Debrids[i].DownloadAPIKeys) = 0
                => c.Debrids[i].DownloadAPIKeys = <<raw.Debrids[i].APIKey>>)

\* C9 witness: a debrid without WebDAV and without download keys got its
\* main key as pool, next to one whose two configured keys were kept
C9_Witness ==
    /\ phase = "loaded"
    /\ call.op = "Save"
    /\ Len(c.Debrids) = 2
    /\ ~c.Debrids[1].UseWebDav
    /\ raw.Debrids[1].DownloadAPIKeys = <<>>
    /\ c.Debrids[1].DownloadAPIKeys = <<"key1">>
    /\ Len(raw.Debrids[2].DownloadAPIKeys) = 2
    /\ c.Debrids[2].DownloadAPIKeys = raw.Debrids[2].DownloadAPIKeys

\* C10: the repair strategy of a configuration that loaded and validates is
\* "per_file" or "per_torrent".
C10_StrategyIsOneOfTwo ==
    phase = "loaded" /\ ValidateConfig(c, stat) = NoError =>
        c.Repair.Strategy \in {RepairStrategyPerFile, RepairStrategyPerTorrent}

\* The error is, or wraps, the too-many-active-downloads error
IsTooManyErr(err) ==
    /\ err.base \in ObjIds
    /\ HTTPErrorObjs[err.base].StatusCode = 509
    /\ HTTPErrorObjs[err.base].Code = "too_many_active_downloads"

\* C5: IsTooManyActiveDownloadsError(err) is true exactly when err is or
\* wraps the too-many-active-downloads error (509,
\* "too_many_active_downloads"); it is false for nil and for the other four
\* errors of the taxonomy.
C5_ClassifierIff ==
    call.op = "IsTooManyActiveDownloadsError" =>
        /\ call.ret <=> IsTooManyErr(call.arg)
        /\ call.arg = NilError => ~call.ret
        /\ call.arg.base \in {HosterUnavailableError, TrafficExceededError,
                              ErrLinkBroken, TorrentNotFoundError} => ~call.ret

\* The five package variables, by what each points to now
Sentinels ==
    <<HTTPErrorObjs[HosterUnavailableError], HTTPErrorObjs[TrafficExceededError],
      HTTPErrorObjs[ErrLinkBroken], HTTPErrorObjs[TorrentNotFoundError],
      HTTPErrorObjs[TooManyActiveDownloadsError]>>

\* C6: whatever calls of the classifier were made, each of the five
\* package variables keeps the status, message and code it was declared
\* with, the five codes stay pairwise distinct, and
\* TooManyActiveDownloadsError has status 509 and code
\* "too_many_active_downloads".
C6_SentinelsKept ==
    /\ TooManyActiveDownloadsError = DeclaredTooMany
    /\ \A i, j \in 1..5 : i # j => Sentinels[i].Code # Sentinels[j].Code
    /\ Sentinels[5].StatusCode = 509
    /\ Sentinels[5].Code = "too_many_active_downloads"

\* C7: with UseAuth enabled the auth file is read at most once in a
\* process, by the first GetAuth that finds no credentials in memory; after
\* SaveAuth(a) returned without error a GetAuth returns a, in the same
\* process and in a restarted one.
C7_AuthRoundTrip ==
    c.UseAuth =>
        /\ authReads <= 1
        /\ (authReads = 1 => c.Auth # <<>>)
        /\ (call.op = "GetAuth" /\ lastSaved # <<>> => call.ret = lastSaved)

\* C7 witness: a restarted process, whose start read the auth file, returns
\* from GetAuth the credentials (user name and password) saved before the
\* restart
C7_Witness ==
    /\ c.UseAuth
    /\ restarts = 1
    /\ authReads = 1
    /\ call.op = "GetAuth"
    /\ lastSaved = <<[Username |-> "admin", Password |-> "hash2"]>>
    /\ call.ret = lastSaved


\* ------------------------------------------------------------------ C3
\* The Config objects Get has returned
Returned3 == {ret[g].ptr : g \in Goroutines} \ {NoRet}

LoadOf(file) ==
    Collect(loadConfig(configPath, file, authFile, <<>>, TRUE, "ok")).c

\* C8: with Reload called while no Get is running, the configuration file
\* is loaded at most once between two Reloads, every Get between them
\* returns the same instance, and the instance returned after a Reload
\* was loaded after it from the content the file had then.
C8_Singleton ==
    /\ loads <= 1
    /\ \A g, h \in Goroutines :
          ret[g].ptr # NoRet /\ ret[h].ptr # NoRet /\ ret[g].epoch = ret[h].epoch
              => ret[g].ptr = ret[h].ptr
    /\ \A g \in Goroutines :
          ret[g].ptr # NoRet =>
              /\ ret[g].ptr # 0
              /\ heap[ret[g].ptr].status = "loaded"
              /\ heap[ret[g].ptr].epoch = ret[g].epoch
              /\ heap[ret[g].ptr].c = LoadOf(heap[ret[g].ptr].from)
              /\ (ret[g].epoch = epoch => ret[g].ptr = instance)

C8_Witness ==
    /\ epoch = 1
    /\ loads = 1
    /\ \A g \in Goroutines : ret[g] = [ptr |-> 2, epoch |-> 1]
    /\ heap[1].status = "loaded"
    /\ heap[1].from = JsonFileOf(GoodJson)
    /\ heap[2].from = JsonFileOf(NoKeyJson)
    /\ heap[2].c # heap[1].c
    /\ heap[2].c.Debrids[1].APIKey = ""

\* ------------------------------------------------------------------ C11
\* The built-in default of each tunable
BuiltIn == Tunables("15s", "40m", "original_no_ext", "3d")

JsonDirs(jsonDirs) == IF jsonDirs = <<>> THEN <<>> ELSE jsonDirs[1]

\* The global "directories" as the config file has them
ConfiguredGlobalDirs ==
    IF "webdav" \in DOMAIN configFile.obj
    THEN JsonDirs(configFile.obj.webdav.Directories)
    ELSE <<>>

\* The entries of the map a field refers to, none for the nil map
DirsOf(id) == IF id = 0 THEN <<>> ELSE maps[id]

\* C12: right after loadConfig's setDefaults, the Directories of every
\* WebDAV debrid are the configured global directories overridden by that
\* debrid's own entries and nothing else, and the global WebDav.Directories
\* still has the configured entries.
C12_DirectoriesPerDebrid ==
    call.op = "setDefaults" /\ "debrids" \in DOMAIN configFile.obj =>
        /\ DirsOf(c.WebDav.Directories) = ConfiguredGlobalDirs
        /\ \A i \in 1..Len(c.Debrids) :
              c.Debrids[i].UseWebDav =>
                  DirsOf(c.Debrids[i].Directories) =
                      MergeInto(ConfiguredGlobalDirs,
                                JsonDirs(configFile.obj.debrids[i].Directories))

\* ------------------------------------------------------------------ C13
\* u is non-empty, starts with "/" and ends with "/"
IsNormalized(u) == Len(u) > 0 /\ u[1] = "/" /\ u[Len(u)] = "/"

\* u with a "/" added in front, behind, both or neither
Slashed(u) == { pre \o u \o post : pre, post \in {<<>>, <<"/">>} }

\* After setDefaults, and after every Save, URLBase is the shortest
\* normalized string among url_base and url_base with a slash added in
\* front or behind: "/" for an empty url_base, url_base itself when it is
\* normalized already.
C13_Normalized ==
    phase = "loaded" =>
        /\ IsNormalized(c.URLBase)
        /\ c.URLBase \in Slashed(raw.URLBase)
        /\ \A v \in Slashed(raw.URLBase) : IsNormalized(v) => Len(c.URLBase) <= Len(v)

\* url has one "/", not more, at position k
OneSlashAt(url, k) ==
    /\ url[k] = "/"
    /\ (k > 1 => url[k - 1] # "/")
    /\ (k < Len(url) => url[k + 1] # "/")

\* C13: for every url_base, URLBase after setDefaults is normalized as
\* above, and the links layout.html builds as URLBase + page and as
\* joinURL(urlBase, path) have exactly one "/" where URLBase ends.
C13_OneSlashAtJoin ==
    /\ C13_Normalized
    /\ (call.op = "layout" =>
          /\ OneSlashAt(call.href, Len(c.URLBase))
          /\ OneSlashAt(call.url, Len(c.URLBase)))

\* ------------------------------------------------------------------ C14
\* The username the auth file holds: empty when the file is missing,
\* unreadable, not a JSON object, or without a username
FileUsername(file) ==
    IF file.kind = "json" /\ AuthJsonTag.Username \in DOMAIN file.obj
    THEN file.obj[AuthJsonTag.Username]
    ELSE ""

\* C14: NeedsAuth never panics on a nil credential record.  Without
\* UseAuth it is false.  With UseAuth it tells whether the stored username
\* is empty: the credentials in memory afterwards, which are the auth
\* file's (empty for a missing or unreadable file) when the call found
\* none in memory, and those of the last SaveAuth that succeeded.
C14_NeedsAuth ==
    call.op = "NeedsAuth" =>
        /\ ~call.panic
        /\ (~c.UseAuth => ~call.ret)
        /\ (c.UseAuth =>
              /\ c.Auth # <<>>
              /\ call.ret = (c.Auth[1].Username = "")
              /\ (call.lazy => call.ret = (FileUsername(authFile) = ""))
              /\ (lastSaved # <<>> => call.ret = (lastSaved[1].Username = "")))

\* C14 witness: with UseAuth and an unreadable or missing auth file,
\* SaveAuth(nil) left no credentials in memory and NeedsAuth answered true
\* from an empty record
C14_Witness ==
    /\ call.op = "NeedsAuth"
    /\ c.UseAuth
    /\ call.lazy
    /\ call.ret
    /\ authFile.kind \in {"none", "unreadable", "null"}
    /\ c.Auth = <<ZeroAuth>>

\* ------------------------------------------------------------------ C15
\* C15: with Get and Reload called from any goroutine at any time, every
\* Get that returns hands out a Config, never nil, whose loadConfig has
\* completed without error.
C15_GetNeverNil ==
    \A g \in Goroutines :
        ret[g].ptr # NoRet =>
            /\ ret[g].ptr # 0
            /\ heap[ret[g].ptr].status = "loaded"

====
